---- MODULE Spec2Model ----
(***************************************************************************)
(* Model of scripts/pdf_regression.py: the calibrate / test workflows of   *)
(* the PDF regression harness, the pixel differ diff_percent and the text  *)
(* invariant gate assert_text_invariants.                                  *)
(*                                                                         *)
(* Three specifications share the variables:                               *)
(*   Spec      the process started by main() in one of its two modes       *)
(*   SpecDiff  diff_percent applied to bounded pairs of RGB images         *)
(*   SpecText  assert_text_invariants applied to bounded page texts        *)
(***************************************************************************)
EXTENDS Integers, Sequences, FiniteSets, TLC

VARIABLES
    \* ---- the process (Spec)
    mode,        \* args.mode: "calibrate" | "test"
    pc,          \* position of the process in main / run_calibrate / run_test
    cfg,         \* the loaded configuration (pages, thresholds)
    disk,        \* persisted state: baseline directory, its page images, calibration block
    disk0,       \* the persisted state when the process started (history)
    tmp,         \* the TemporaryDirectory: current.pdf and the current page images
    result,      \* the mapping computed by assert_text_invariants, NoResult before
    idx,         \* position of the for loop over cfg["pages"]
    failures,    \* run_test's list of soft failures
    summary,     \* run_test's summary dict, in insertion order
    exit,        \* how the process ended: kind and exit code
    out,         \* what was printed on stdout, in order
    fetches,     \* number of urlopen calls made (history)
    cfgWrites,   \* number of save_config calls made (history)
    written,     \* pages whose baseline image this run wrote (history)
    \* ---- diff_percent (SpecDiff)
    dA, dB, dT,  \* the two images and the channel threshold
    dPc,         \* "call" before the call, "ret" after
    dRet,        \* the value returned: a rational <<numerator, denominator>>
    \* ---- assert_text_invariants (SpecText)
    tChecks,     \* cfg["text_invariants"]
    tP1, tP2,    \* text of page 1 and of page 2
    tPc,         \* "call" before the call, "ret" after
    tOutcome     \* what the call did: returned a mapping, or raised SystemExit

wfVars   == <<mode, pc, cfg, disk, disk0, tmp, result, idx, failures, summary,
             exit, out, fetches, cfgWrites, written>>
diffVars == <<dA, dB, dT, dPc, dRet>>
textVars == <<tChecks, tP1, tP2, tPc, tOutcome>>
vars     == <<wfVars, diffVars, textVars>>

----------------------------------------------------------------------------
(* Bounds of the model *)

MaxPages   == 2     \* cfg["pages"] lists the pages 1..MaxPages
MaxPixels  == 2     \* SpecDiff: images of at most this many pixels
MaxTextLen == 3     \* SpecText: page texts of at most this many characters
MaxClock   == 1     \* utcnow() returns one of 1..MaxClock

(* Program constants *)

DefaultChannelThreshold == 15

----------------------------------------------------------------------------
(* Images: [w, h, px], px the RGB triples in row-major order.              *)

Abs(n) == IF n < 0 THEN -n ELSE n
Max2(x, y) == IF x >= y THEN x ELSE y
Max3(x, y, z) == Max2(x, Max2(y, z))

\* a_pixels[x, y] of a loaded image, x in 0..w-1, y in 0..h-1
PixelAt(img, x, y) == img.px[y * img.w + x + 1]

\* line 107: the pixel counts as changed
PixelChangedGE(p1, p2, channel_threshold) ==
    Max3(Abs(p1[1] - p2[1]), Abs(p1[2] - p2[2]), Abs(p1[3] - p2[3])) >= channel_threshold
PixelChanged(p1, p2, channel_threshold) ==
    Max3(Abs(p1[1] - p2[1]), Abs(p1[2] - p2[2]), Abs(p1[3] - p2[3])) > channel_threshold

\* lines 102-108: the nested loops, y outer and x inner, counting the changed pixels
RECURSIVE ScanPixels(_, _, _, _, _, _)
ScanPixels(a, b, channel_threshold, x, y, changed) ==
    IF y >= a.h THEN changed
    ELSE IF x >= a.w THEN ScanPixels(a, b, channel_threshold, 0, y + 1, changed)
    ELSE ScanPixels(a, b, channel_threshold, x + 1, y,
                    IF PixelChanged(PixelAt(a, x, y), PixelAt(b, x, y), channel_threshold)
                    THEN changed + 1 ELSE changed)

\* diff_percent: the percentage as the rational <<numerator, denominator>>
\* (100.0 * changed / total; 100.0 when the sizes differ)
diff_percent(a, b, channel_threshold) ==
    IF <<a.w, a.h>> # <<b.w, b.h>> THEN <<100, 1>>
    ELSE <<100 * ScanPixels(a, b, channel_threshold, 0, 0, 0), a.w * a.h>>

\* comparisons of rationals with positive denominators
RatLE(p, q) == p[1] * q[2] <= q[1] * p[2]
RatEq(p, q) == p[1] * q[2] = q[1] * p[2]

\* line 176: pct > max_allowed
ExceedsGE(pct, max_allowed) == pct[1] >= max_allowed * pct[2]
Exceeds(pct, max_allowed) == pct[1] > max_allowed * pct[2]

\* line 175: round(pct, 4), in units of 0.0001 percent (round half to even)
Round4(pct) ==
    LET n == 10000 * pct[1]
        q == n \div pct[2]
        r == n % pct[2]
    IN  IF 2 * r < pct[2] THEN q
        ELSE IF 2 * r > pct[2] THEN q + 1
        ELSE q + (q % 2)

----------------------------------------------------------------------------
(* Texts are sequences of characters.                                      *)

\* Python's `needle in hay` for str: a scan for the first position where
\* needle occurs (the empty needle occurs in every text)
RECURSIVE StrInFrom(_, _, _)
StrInFrom(needle, hay, i) ==
    IF i + Len(needle) - 1 > Len(hay) THEN FALSE
    ELSE IF SubSeq(hay, i, i + Len(needle) - 1) = needle THEN TRUE
    ELSE StrInFrom(needle, hay, i + 1)
StrIn(needle, hay) == StrInFrom(needle, hay, 1)

\* lines 116-121: the result dict of assert_text_invariants, keys in insertion order
ResultKeys == <<"page1_footer_present", "page2_footer_present",
                "page1_no_how_this_report_works", "page2_has_how_this_report_works">>
TextResultSwapped(checks, p1, p2) ==
    [k \in {ResultKeys[i] : i \in 1..4} |->
        CASE k = "page1_footer_present" -> StrIn(checks.page1_footer_contains, p1)
          [] k = "page2_footer_present" -> StrIn(checks.page2_footer_contains, p2)
          [] k = "page1_no_how_this_report_works" -> ~StrIn(checks.must_start_on_page2, p2)
          [] k = "page2_has_how_this_report_works" -> StrIn(checks.must_start_on_page2, p2)]
TextResult(checks, p1, p2) ==
    [k \in {ResultKeys[i] : i \in 1..4} |->
        CASE k = "page1_footer_present" -> StrIn(checks.page1_footer_contains, p1)
          [] k = "page2_footer_present" -> StrIn(checks.page2_footer_contains, p2)
          [] k = "page1_no_how_this_report_works" -> ~StrIn(checks.must_start_on_page2, p1)
          [] k = "page2_has_how_this_report_works" -> StrIn(checks.must_start_on_page2, p2)]

\* line 122: failed = [k for k, v in result.items() if not v]
RECURSIVE FailedFrom(_, _)
FailedFrom(res, i) ==
    IF i > 4 THEN <<>>
    ELSE (IF res[ResultKeys[i]] THEN <<>> ELSE <<ResultKeys[i]>>) \o FailedFrom(res, i + 1)
Failed(res) == FailedFrom(res, 1)

\* line 123: `if failed:` raises SystemExit
GateNeverRaises(failed) == FALSE
GateRaises(failed) == failed # <<>>

----------------------------------------------------------------------------
(* The process: main(), run_calibrate(), run_test().                       *)

Pages == 1..MaxPages
Ascending  == [i \in 1..MaxPages |-> i]
Descending == [i \in 1..MaxPages |-> MaxPages + 1 - i]
PageLists  == {Ascending, Descending}

\* page rasters pdftoppm can produce: a page, the same page with one pixel
\* moved by 16 in one channel, and a page of another size
Black2 == [w |-> 1, h |-> 2, px |-> << <<0, 0, 0>>, <<0, 0, 0>> >>]
Shift2 == [w |-> 1, h |-> 2, px |-> << <<0, 0, 0>>, <<16, 0, 0>> >>]
Wide2  == [w |-> 2, h |-> 1, px |-> << <<0, 0, 0>>, <<0, 0, 0>> >>]
WfImages == {Black2, Shift2, Wide2}

\* thresholds.max_diff_pct_per_page and thresholds.pixel_channel_threshold
\* (<<>>: the key is absent) of the configurations explored
MaxAllowedValues == {0, 50}
ChannelValues == {<<>>, <<16>>}

\* cfg["text_invariants"] of the process, and the page texts pdftotext can produce
WfChecks == [page1_footer_contains |-> <<"f">>,
             page2_footer_contains |-> <<"f", "f">>,
             must_start_on_page2   |-> <<"h", "w">>]
RenderTexts == {<<>>, <<"f", "f">>, <<"h", "w">>, <<"f", "f", "h", "w">>}

\* outcomes of urlopen and of the status / content type test
Responses == {"ok", "http_error", "url_error", "bad_status_or_type"}

NoFiles  == [p \in {} |-> Black2]
EmptyTmp == [pdf |-> FALSE, pngs |-> NoFiles]
Running  == [kind |-> "running", code |-> 0, failed |-> <<>>]
OldCalibration ==
    [generated_at_utc |-> 0,
     text_invariants |-> [k \in {ResultKeys[i] : i \in 1..4} |-> TRUE],
     notes |-> "Baseline regenerated from current server-side PDF renderer."]

DiffIdle == dA = Black2 /\ dB = Black2 /\ dT = 0 /\ dPc = "idle" /\ dRet = <<0, 1>>
TextIdle == tChecks = WfChecks /\ tP1 = <<>> /\ tP2 = <<>> /\ tPc = "idle"
            /\ tOutcome = [kind |-> "none", value |-> <<>>, failed |-> <<>>]

Init ==
    /\ mode \in {"calibrate", "test"}
    /\ pc = "main"
    /\ cfg \in [pages : PageLists, max_allowed : MaxAllowedValues, chan : ChannelValues]
    /\ \E exists \in BOOLEAN, present \in SUBSET Pages, cal \in {<<>>, <<OldCalibration>>} :
         \E files \in [present -> WfImages] :
            /\ exists \/ present = {}
            /\ disk = [dirExists |-> exists, files |-> files, calibration |-> cal]
    /\ disk0 = disk
    /\ tmp = EmptyTmp
    /\ result = <<>>
    /\ idx = 1
    /\ failures = <<>>
    /\ summary = <<>>
    /\ exit = Running
    /\ out = <<>>
    /\ fetches = 0
    /\ cfgWrites = 0
    /\ written = {}
    /\ DiffIdle
    /\ TextIdle

\* SystemExit or an uncaught exception: the with block removes the temporary
\* directory and the interpreter exits with status 1
Raise(kind, failed) ==
    /\ pc' = "done"
    /\ exit' = [kind |-> kind, code |-> 1, failed |-> failed]
    /\ tmp' = EmptyTmp

\* lines 186-196: the tools are required, the configuration loaded, the mode dispatched
Main ==
    /\ pc = "main"
    /\ \E toolsFound \in BOOLEAN :
         IF ~toolsFound
         THEN /\ Raise("missing_tool", <<>>)
              /\ UNCHANGED <<mode, cfg, disk, disk0, result, idx, failures, summary, out,
                             fetches, cfgWrites, written>>
         ELSE /\ pc' = IF mode = "calibrate" THEN "cal_mkdir" ELSE "test_checkdir"
              /\ UNCHANGED <<mode, cfg, disk, disk0, tmp, result, idx, failures, summary,
                             exit, out, fetches, cfgWrites, written>>
    /\ UNCHANGED <<diffVars, textVars>>

\* lines 129-133: baseline_dir.mkdir(parents=True, exist_ok=True), then the
\* temporary directory is created
CalMkdir ==
    /\ pc = "cal_mkdir"
    /\ disk' = [disk EXCEPT !.dirExists = TRUE]
    /\ tmp' = EmptyTmp
    /\ pc' = "fetch"
    /\ UNCHANGED <<mode, cfg, disk0, result, idx, failures, summary, exit, out,
                   fetches, cfgWrites, written>>
    /\ UNCHANGED <<diffVars, textVars>>

\* line 153: `if not baseline_dir.exists()`
NeverMissing(d) == FALSE
BaselineDirMissing(d) == ~d.dirExists

\* lines 152-158: run_test requires the baseline directory
TestCheckDir ==
    /\ pc = "test_checkdir"
    /\ IF BaselineDirMissing(disk)
       THEN /\ Raise("baseline_dir_missing", <<>>)
            /\ UNCHANGED <<mode, cfg, disk, disk0, result, idx, failures, summary, out,
                           fetches, cfgWrites, written>>
       ELSE /\ pc' = "fetch"
            /\ tmp' = EmptyTmp
            /\ UNCHANGED <<mode, cfg, disk, disk0, result, idx, failures, summary, exit,
                           out, fetches, cfgWrites, written>>
    /\ UNCHANGED <<diffVars, textVars>>

\* lines 48-70: generate_pdf, one urlopen call, current.pdf written on success
generate_pdf ==
    /\ pc = "fetch"
    /\ fetches' = fetches + 1
    /\ \E resp \in Responses :
         IF resp = "ok"
         THEN /\ tmp' = [tmp EXCEPT !.pdf = TRUE]
              /\ pc' = "gate"
              /\ UNCHANGED exit
         ELSE Raise("fetch_error", <<>>)
    /\ UNCHANGED <<mode, cfg, disk, disk0, result, idx, failures, summary, out,
                   cfgWrites, written>>
    /\ UNCHANGED <<diffVars, textVars>>

\* lines 112-125: assert_text_invariants; pdftotext may fail (check_output raises)
assert_text_invariants ==
    /\ pc = "gate"
    /\ \/ /\ Raise("tool_error", <<>>)
          /\ UNCHANGED <<result, idx, failures, summary>>
       \/ \E p1 \in RenderTexts, p2 \in RenderTexts :
            LET res == TextResult(WfChecks, p1, p2)
                failed == Failed(res)
            IN  /\ result' = <<res>>
                /\ IF GateRaises(failed)
                   THEN /\ Raise("text_invariant", failed)
                        /\ UNCHANGED <<idx, failures, summary>>
                   ELSE /\ pc' = IF mode = "calibrate" THEN "cal_loop" ELSE "test_loop"
                        /\ idx' = 1
                        /\ failures' = <<>>
                        /\ summary' = <<>>
                        /\ UNCHANGED <<tmp, exit>>
    /\ UNCHANGED <<mode, cfg, disk, disk0, out, fetches, cfgWrites, written>>
    /\ UNCHANGED <<diffVars, textVars>>

\* the for loop over cfg["pages"] has run out
LoopDone(i, pages) == i > Len(pages)

\* line 137: run_calibrate leaves its loop
CalLoopAlwaysDone(i, pages) == TRUE
CalLoopDone(i, pages) == i > Len(pages)

\* lines 137-139: one page of run_calibrate's loop; pdftoppm writes the
\* baseline image, or fails (check=True raises CalledProcessError)
CalExtract ==
    /\ pc = "cal_loop"
    /\ ~LoopDone(idx, cfg.pages)
    /\ LET page == cfg.pages[idx]
       IN  \/ /\ Raise("tool_error", <<>>)
              /\ UNCHANGED <<disk, idx, written>>
           \/ \E img \in WfImages :
                /\ disk' = [disk EXCEPT !.files = (page :> img) @@ disk.files]
                /\ written' = written \cup {page}
                /\ idx' = idx + 1
                /\ UNCHANGED <<pc, tmp, exit>>
    /\ UNCHANGED <<mode, cfg, disk0, result, failures, summary, out, fetches, cfgWrites>>
    /\ UNCHANGED <<diffVars, textVars>>

\* lines 141-148: the calibration block is set and the configuration saved
CalSave ==
    /\ pc = "cal_loop"
    /\ CalLoopDone(idx, cfg.pages)
    /\ \E now \in 1..MaxClock :
         disk' = [disk EXCEPT !.calibration =
                    <<[generated_at_utc |-> now,
                       text_invariants |-> result[1],
                       notes |-> "Baseline regenerated from current server-side PDF renderer."]>>]
    /\ cfgWrites' = cfgWrites + 1
    /\ tmp' = EmptyTmp
    /\ out' = Append(out, [kind |-> "calibration_updated", value |-> <<>>])
    /\ exit' = [kind |-> "ok", code |-> 0, failed |-> <<>>]
    /\ pc' = "done"
    /\ UNCHANGED <<mode, cfg, disk0, result, idx, failures, summary, fetches, written>>
    /\ UNCHANGED <<diffVars, textVars>>

\* line 163: int(cfg["thresholds"].get("pixel_channel_threshold", 15))
ChannelThreshold(c) == IF c.chan = <<>> THEN DefaultChannelThreshold ELSE c.chan[1]

\* lines 167-177: one page of run_test's loop (variant in which a missing
\* baseline image ends the run at once)
TestPageStopsAtMissing ==
    /\ pc = "test_loop"
    /\ ~LoopDone(idx, cfg.pages)
    /\ LET page == cfg.pages[idx]
       IN  \/ /\ page \notin DOMAIN disk.files
              /\ failures' = Append(failures, [kind |-> "missing_baseline", page |-> page])
              /\ idx' = Len(cfg.pages) + 1
              /\ UNCHANGED <<pc, tmp, summary, exit>>
           \/ /\ page \in DOMAIN disk.files
              /\ Raise("tool_error", <<>>)
              /\ UNCHANGED <<idx, failures, summary>>
           \/ /\ page \in DOMAIN disk.files
              /\ \E img \in WfImages :
                   LET pct == diff_percent(disk.files[page], img, ChannelThreshold(cfg))
                   IN  /\ tmp' = [tmp EXCEPT !.pngs = (page :> img) @@ tmp.pngs]
                       /\ summary' = Append(summary, [page |-> page, value |-> Round4(pct)])
                       /\ failures' = IF Exceeds(pct, cfg.max_allowed)
                                      THEN Append(failures, [kind |-> "exceeds", page |-> page])
                                      ELSE failures
                       /\ idx' = idx + 1
                       /\ UNCHANGED <<pc, exit>>
    /\ UNCHANGED <<mode, cfg, disk, disk0, result, out, fetches, cfgWrites, written>>
    /\ UNCHANGED <<diffVars, textVars>>

\* lines 167-177: one page of run_test's loop: a missing baseline image is
\* recorded; otherwise pdftoppm extracts the current page (or fails), the
\* diff is computed, put in the summary and compared with max_allowed
TestPage ==
    /\ pc = "test_loop"
    /\ ~LoopDone(idx, cfg.pages)
    /\ LET page == cfg.pages[idx]
       IN  \/ /\ page \notin DOMAIN disk.files
              /\ failures' = Append(failures, [kind |-> "missing_baseline", page |-> page])
              /\ idx' = idx + 1
              /\ UNCHANGED <<pc, tmp, summary, exit>>
           \/ /\ page \in DOMAIN disk.files
              /\ Raise("tool_error", <<>>)
              /\ UNCHANGED <<idx, failures, summary>>
           \/ /\ page \in DOMAIN disk.files
              /\ \E img \in WfImages :
                   LET pct == diff_percent(disk.files[page], img, ChannelThreshold(cfg))
                   IN  /\ tmp' = [tmp EXCEPT !.pngs = (page :> img) @@ tmp.pngs]
                       /\ summary' = Append(summary, [page |-> page, value |-> Round4(pct)])
                       /\ failures' = IF Exceeds(pct, cfg.max_allowed)
                                      THEN Append(failures, [kind |-> "exceeds", page |-> page])
                                      ELSE failures
                       /\ idx' = idx + 1
                       /\ UNCHANGED <<pc, exit>>
    /\ UNCHANGED <<mode, cfg, disk, disk0, result, out, fetches, cfgWrites, written>>
    /\ UNCHANGED <<diffVars, textVars>>

\* lines 179-183 (variant in which the failure is raised before the summary
\* is printed)
TestReportRaisesFirst ==
    /\ pc = "test_loop"
    /\ LoopDone(idx, cfg.pages)
    /\ IF failures # <<>>
       THEN /\ Raise("regression_failed", <<>>)
            /\ UNCHANGED out
       ELSE /\ out' = out \o <<[kind |-> "summary", value |-> summary],
                               [kind |-> "passed", value |-> <<>>]>>
            /\ exit' = [kind |-> "ok", code |-> 0, failed |-> <<>>]
            /\ tmp' = EmptyTmp
            /\ pc' = "done"
    /\ UNCHANGED <<mode, cfg, disk, disk0, result, idx, failures, summary, fetches,
                   cfgWrites, written>>
    /\ UNCHANGED <<diffVars, textVars>>

\* lines 179-183: the summary is printed; then SystemExit when there are
\* failures, else the pass line and return 0
TestReport ==
    /\ pc = "test_loop"
    /\ LoopDone(idx, cfg.pages)
    /\ IF failures # <<>>
       THEN /\ out' = Append(out, [kind |-> "summary", value |-> summary])
            /\ Raise("regression_failed", <<>>)
       ELSE /\ out' = out \o <<[kind |-> "summary", value |-> summary],
                               [kind |-> "passed", value |-> <<>>]>>
            /\ exit' = [kind |-> "ok", code |-> 0, failed |-> <<>>]
            /\ tmp' = EmptyTmp
            /\ pc' = "done"
    /\ UNCHANGED <<mode, cfg, disk, disk0, result, idx, failures, summary, fetches,
                   cfgWrites, written>>
    /\ UNCHANGED <<diffVars, textVars>>

Next ==
    \/ Main
    \/ CalMkdir
    \/ TestCheckDir
    \/ generate_pdf
    \/ assert_text_invariants
    \/ CalExtract
    \/ CalSave
    \/ TestPage
    \/ TestReport

Spec == Init /\ [][Next]_vars

----------------------------------------------------------------------------
(* diff_percent on its own: every pair of images of at most MaxPixels       *)
(* pixels over DiffPixels, every threshold of Thresholds.                  *)

DiffPixels == {<<0, 0, 0>>, <<0, 15, 0>>, <<16, 0, 0>>}
Thresholds == {-1, 0, 15, 16}
DiffImages ==
    UNION {[w : {w}, h : {h}, px : [1..(w * h) -> DiffPixels]] :
             <<w, h>> \in {d \in (1..MaxPixels) \X (1..MaxPixels) : d[1] * d[2] <= MaxPixels}}

WfIdle ==
    /\ mode = "test"
    /\ pc = "idle"
    /\ cfg = [pages |-> Ascending, max_allowed |-> 0, chan |-> <<>>]
    /\ disk = [dirExists |-> FALSE, files |-> NoFiles, calibration |-> <<>>]
    /\ disk0 = disk
    /\ tmp = EmptyTmp
    /\ result = <<>>
    /\ idx = 1
    /\ failures = <<>>
    /\ summary = <<>>
    /\ exit = Running
    /\ out = <<>>
    /\ fetches = 0
    /\ cfgWrites = 0
    /\ written = {}

InitDiff ==
    /\ WfIdle
    /\ TextIdle
    /\ dA \in DiffImages
    /\ dB \in DiffImages
    /\ dT \in Thresholds
    /\ dPc = "call"
    /\ dRet = <<0, 1>>

\* lines 93-109: the call diff_percent(a, b, channel_threshold)
DiffCall ==
    /\ dPc = "call"
    /\ dRet' = diff_percent(dA, dB, dT)
    /\ dPc' = "ret"
    /\ UNCHANGED <<dA, dB, dT, wfVars, textVars>>

NextDiff == DiffCall

SpecDiff == InitDiff /\ [][NextDiff]_vars

----------------------------------------------------------------------------
(* assert_text_invariants on its own: every pair of page texts of at most  *)
(* MaxTextLen characters over Alphabet.                                    *)

Alphabet == {"f", "h", "w"}
Texts == UNION {[1..n -> Alphabet] : n \in 0..MaxTextLen}
TextConfigs ==
    {WfChecks,
     [page1_footer_contains |-> <<>>,
      page2_footer_contains |-> <<"w">>,
      must_start_on_page2   |-> <<"f", "h">>]}

InitText ==
    /\ WfIdle
    /\ DiffIdle
    /\ tChecks \in TextConfigs
    /\ tP1 \in Texts
    /\ tP2 \in Texts
    /\ tPc = "call"
    /\ tOutcome = [kind |-> "none", value |-> <<>>, failed |-> <<>>]

\* lines 112-125: the call assert_text_invariants(cfg, pdf) on a PDF whose
\* pages 1 and 2 hold the texts tP1 and tP2
TextCall ==
    /\ tPc = "call"
    /\ LET res == TextResult(tChecks, tP1, tP2)
           failed == Failed(res)
       IN  tOutcome' = IF GateRaises(failed)
                       THEN [kind |-> "raised", value |-> <<>>, failed |-> failed]
                       ELSE [kind |-> "returned", value |-> <<res>>, failed |-> <<>>]
    /\ tPc' = "ret"
    /\ UNCHANGED <<tChecks, tP1, tP2, wfVars, diffVars>>

NextText == TextCall

SpecText == InitText /\ [][NextText]_vars

----------------------------------------------------------------------------
(* Properties                                                              *)

AnyFalse(res) == \E k \in DOMAIN res : ~res[k]
GateFailed == result # <<>> /\ AnyFalse(result[1])
HardKinds == {"baseline_dir_missing", "fetch_error", "text_invariant", "tool_error"}

\* C1: a calibrate run writes nothing to the baseline store or the
\* configuration before its text gate has passed, and when the gate computes a
\* false invariant the run ends there, with a nonzero status, no baseline
\* image written or overwritten and the configuration not rewritten.
C1_CalibrateGateRefusesBaseline ==
    mode = "calibrate" =>
        /\ pc \in {"main", "cal_mkdir", "fetch", "gate"} =>
              written = {} /\ disk.files = disk0.files /\ cfgWrites = 0
        /\ GateFailed =>
              /\ pc = "done"
              /\ exit.kind = "text_invariant"
              /\ exit.code # 0
              /\ exit.failed = Failed(result[1])
              /\ written = {}
              /\ disk.files = disk0.files
              /\ cfgWrites = 0
              /\ disk.calibration = disk0.calibration

\* a calibrate run over an existing baseline ended by two false invariants
C1_Witness ==
    /\ mode = "calibrate"
    /\ pc = "done"
    /\ exit.kind = "text_invariant"
    /\ Len(exit.failed) >= 2
    /\ DOMAIN disk0.files = Pages
    /\ disk0.calibration # <<>>

\* C2: a test run started without a baseline directory ends in run_test's
\* first step with the "baseline directory missing" failure: nothing was
\* fetched, no invariant evaluated, no page diffed, and the directory was not
\* created.
C2_MissingBaselineDirFailsFirst ==
    (mode = "test" /\ ~disk0.dirExists /\ pc \notin {"main", "test_checkdir"}
       /\ exit.kind # "missing_tool") =>
        /\ pc = "done"
        /\ exit.kind = "baseline_dir_missing"
        /\ exit.kind # "regression_failed"
        /\ exit.code # 0
        /\ fetches = 0
        /\ result = <<>>
        /\ summary = <<>>
        /\ failures = <<>>
        /\ idx = 1
        /\ out = <<>>
        /\ disk = disk0

C2_Witness ==
    /\ mode = "test"
    /\ ~disk0.dirExists
    /\ pc = "done"
    /\ exit.kind = "baseline_dir_missing"

\* C3: in a test run whose text gate computes a false invariant the run ends
\* at the gate with a hard failure: the page loop never started, no page
\* raster was extracted and no diff percentage computed or printed, whatever
\* baseline images exist.
C3_TextGatePrecedesPages ==
    (mode = "test" /\ GateFailed) =>
        /\ pc = "done"
        /\ exit.kind = "text_invariant"
        /\ exit.code # 0
        /\ exit.failed = Failed(result[1])
        /\ idx = 1
        /\ tmp.pngs = NoFiles
        /\ summary = <<>>
        /\ failures = <<>>
        /\ out = <<>>

\* Scenario B: the marker is on page 1, and every page has a baseline image
C3_Witness ==
    /\ mode = "test"
    /\ pc = "done"
    /\ exit.kind = "text_invariant"
    /\ exit.failed = <<"page1_no_how_this_report_works">>
    /\ DOMAIN disk.files = Pages

\* a page fails: its baseline image is missing, or the diff of the baseline
\* and the current raster is strictly greater than max_diff_pct_per_page
PageFails(p) ==
    \/ p \notin DOMAIN disk.files
    \/ /\ p \in DOMAIN tmp.pngs
       /\ ~RatLE(diff_percent(disk.files[p], tmp.pngs[p], ChannelThreshold(cfg)),
                 <<cfg.max_allowed, 1>>)

\* C4: when the page loop of a test run has completed (the baseline
\* directory exists, the text invariants held, every extraction succeeded),
\* the step that follows prints the summary and then gives the verdict: the
\* pass line and status 0 if and only if no configured page failed, else the
\* regression failure; a diff equal to max_diff_pct_per_page is no failure.
C4_VerdictIffNoPageFailed ==
    [][(pc = "test_loop" /\ LoopDone(idx, cfg.pages)) =>
         LET noneFailed == \A i \in 1..Len(cfg.pages) : ~PageFails(cfg.pages[i])
             report == [kind |-> "summary", value |-> summary]
         IN  /\ pc' = "done"
             /\ noneFailed =>
                   /\ exit'.kind = "ok" /\ exit'.code = 0
                   /\ out' = out \o <<report, [kind |-> "passed", value |-> <<>>]>>
             /\ ~noneFailed =>
                   /\ exit'.kind = "regression_failed" /\ exit'.code # 0
                   /\ out' = out \o <<report>>
      ]_vars

\* a passed run that has a page whose diff is exactly the nonzero maximum
C4_Witness ==
    /\ mode = "test"
    /\ pc = "done"
    /\ exit.kind = "ok"
    /\ cfg.max_allowed > 0
    /\ \E i \in 1..Len(summary) : summary[i].value = 10000 * cfg.max_allowed
    /\ Len(out) = 2

\* C5: at every point of run_test's page loop the pages before the loop
\* position have each been attempted exactly once, in configured order, the
\* others not at all: a page without baseline image has one missing-baseline
\* failure and no diff, a page with one has exactly one diff in the summary;
\* the recorded failures are those of the failed pages, in order.  So when the
\* loop ends every configured page has been attempted, failed pages included.
C5_SoftFailuresContinue ==
    (mode = "test" /\ pc = "test_loop") =>
        LET done == SubSeq(cfg.pages, 1, idx - 1)
            HasBase(p) == p \in DOMAIN disk.files
            Failing(p) == PageFails(p)
        IN  /\ idx \in 1..(Len(cfg.pages) + 1)
            /\ [i \in 1..Len(summary) |-> summary[i].page] = SelectSeq(done, HasBase)
            /\ [i \in 1..Len(failures) |-> failures[i].page] = SelectSeq(done, Failing)
            /\ DOMAIN tmp.pngs = {p \in Pages : \E i \in 1..Len(done) : done[i] = p /\ HasBase(p)}
            /\ \A i \in 1..Len(failures) :
                  failures[i].kind = IF HasBase(failures[i].page)
                                     THEN "exceeds" ELSE "missing_baseline"

\* the loop has ended; the first page had no baseline image, a later page was
\* still diffed and failed in turn
C5_Witness ==
    /\ mode = "test"
    /\ pc = "test_loop"
    /\ LoopDone(idx, cfg.pages)
    /\ cfg.pages = Descending
    /\ Len(failures) >= 2
    /\ failures[1].kind = "missing_baseline"
    /\ failures[1].page = cfg.pages[1]
    /\ failures[2].kind = "exceeds"
    /\ Len(summary) >= 1

\* the reference value of the diff: the share of the pixel coordinates where
\* the largest channel difference is strictly above t
RefChanged(a, b, t) ==
    Cardinality({c \in (0..(a.w - 1)) \X (0..(a.h - 1)) :
        \E ch \in 1..3 :
            Abs(PixelAt(a, c[1], c[2])[ch] - PixelAt(b, c[1], c[2])[ch]) > t})

\* C6: the value diff_percent returned is exactly 100 when the sizes of the
\* two images differ and 100 * changed / (width * height) otherwise; it lies
\* in [0, 100], is 0 for equal images and a nonnegative threshold, is the
\* value of the swapped call, and no higher threshold gives a larger value.
C6_DiffPercentReference ==
    dPc = "ret" =>
        /\ dRet[2] > 0
        /\ (dA.w # dB.w \/ dA.h # dB.h) => RatEq(dRet, <<100, 1>>)
        /\ (dA.w = dB.w /\ dA.h = dB.h) =>
              RatEq(dRet, <<100 * RefChanged(dA, dB, dT), dA.w * dA.h>>)
        /\ RatLE(<<0, 1>>, dRet) /\ RatLE(dRet, <<100, 1>>)
        /\ (dA = dB /\ dT >= 0) => RatEq(dRet, <<0, 1>>)
        /\ RatEq(dRet, diff_percent(dB, dA, dT))
        /\ \A t2 \in Thresholds : t2 >= dT => RatLE(diff_percent(dA, dB, t2), dRet)

\* two images of one size, one of two pixels changed, another pixel pair
\* differing by exactly the threshold
C6_Witness ==
    /\ dPc = "ret"
    /\ dA.w = dB.w /\ dA.h = dB.h
    /\ dT = 15
    /\ RatEq(dRet, <<50, 1>>)
    /\ \E i \in 1..Len(dA.px) : Abs(dA.px[i][2] - dB.px[i][2]) = 15

\* substring containment, stated by positions
RefContains(needle, hay) ==
    \E i \in 1..(Len(hay) + 1) : \E j \in (i - 1)..Len(hay) : SubSeq(hay, i, j) = needle

\* the four invariants, each from its own page text
RefResult ==
    [k \in {ResultKeys[i] : i \in 1..4} |->
        CASE k = "page1_footer_present" -> RefContains(tChecks.page1_footer_contains, tP1)
          [] k = "page2_footer_present" -> RefContains(tChecks.page2_footer_contains, tP2)
          [] k = "page1_no_how_this_report_works" -> ~RefContains(tChecks.must_start_on_page2, tP1)
          [] k = "page2_has_how_this_report_works" -> RefContains(tChecks.must_start_on_page2, tP2)]

\* C7 as stated: the call always returns the full mapping of the four results
C7_AlwaysReturnsMapping ==
    tPc = "ret" => (tOutcome.kind = "returned" /\ tOutcome.value = <<RefResult>>)

\* C7, amended: the four invariants are evaluated independently; the mapping
\* is returned only when all four are true, and otherwise the call itself
\* raises the failure, naming every false invariant in key order.
C7_ReturnsOnlyWhenAllTrue ==
    tPc = "ret" =>
        IF AnyFalse(RefResult)
        THEN /\ tOutcome.kind = "raised"
             /\ tOutcome.value = <<>>
             /\ tOutcome.failed = SelectSeq(ResultKeys, LAMBDA k : ~RefResult[k])
        ELSE /\ tOutcome.kind = "returned"
             /\ tOutcome.value = <<RefResult>>
             /\ tOutcome.failed = <<>>

\* the call raised on a render on which three invariants are false
C7_Witness ==
    /\ tPc = "ret"
    /\ tOutcome.kind = "raised"
    /\ Len(tOutcome.failed) = 3
    /\ RefResult["page2_footer_present"]

\* C8 as stated: after a failed fetch the persisted state (baseline directory,
\* its images, the configuration) is what it was before the run, and one
\* fetch was made.
C8_FetchFailureLeavesNoState ==
    (pc = "done" /\ exit.kind = "fetch_error") =>
        /\ fetches = 1
        /\ disk = disk0

\* C9 as stated: every failed test run has printed a summary
C9_SummaryOnEveryFailure ==
    (mode = "test" /\ pc = "done" /\ exit.code # 0 /\ exit.kind # "missing_tool") =>
        \E i \in 1..Len(out) : out[i].kind = "summary"

\* C9, amended: a test run that fails on its pages (missing baseline image,
\* threshold exceeded) printed, before the failure, the summary holding the
\* diff of every configured page that has a baseline image; a run ended by a
\* hard failure (missing baseline directory, fetch error, text invariant,
\* extraction tool failure) printed nothing.
C9_SummaryOnlyOnSoftFailure ==
    (mode = "test" /\ pc = "done") =>
        /\ exit.kind = "regression_failed" =>
              /\ out = <<[kind |-> "summary", value |-> summary]>>
              /\ failures # <<>>
              /\ {summary[i].page : i \in 1..Len(summary)} =
                    {cfg.pages[i] : i \in 1..Len(cfg.pages)} \cap DOMAIN disk.files
        /\ exit.kind \in HardKinds => out = <<>>

\* a run failed on a page over the threshold, after a diff was computed
C9_Witness ==
    /\ mode = "test"
    /\ pc = "done"
    /\ exit.kind = "regression_failed"
    /\ Len(summary) = Len(cfg.pages)
    /\ \E i \in 1..Len(failures) : failures[i].kind = "exceeds"

\* C10: the configuration is saved at most once, by a calibrate run only,
\* after its text invariants all held and the baseline image of every
\* configured page was written; until then (so in every aborted calibrate run
\* and in every test run) the calibration block is the one the run found.
C10_ConfigSavedOnlyAtEndOfCalibrate ==
    /\ cfgWrites \in {0, 1}
    /\ mode = "test" => cfgWrites = 0
    /\ cfgWrites = 0 => disk.calibration = disk0.calibration
    /\ cfgWrites = 1 =>
          /\ mode = "calibrate"
          /\ pc = "done"
          /\ exit.kind = "ok"
          /\ result # <<>> /\ ~AnyFalse(result[1])
          /\ disk.calibration # <<>> /\ disk.calibration[1].text_invariants = result[1]
          /\ \A i \in 1..Len(cfg.pages) :
                cfg.pages[i] \in written /\ cfg.pages[i] \in DOMAIN disk.files

\* a calibrate run that replaced an earlier calibration block
C10_Witness ==
    /\ cfgWrites = 1
    /\ disk0.calibration # <<>>
    /\ disk.calibration # disk0.calibration
    /\ written = Pages

====
